---------------------------- MODULE Spec2Model ----------------------------
(***************************************************************************)
(* A model of phasepack/matops.py: the ConvolutionMatrix container         *)
(* (constructor, check_adjoint, validate_input, lsqr, hmul, __mul__,       *)
(* __matmul__) and the stopping evaluator stop_now.                        *)
(*                                                                         *)
(* Python values are records with a "kind" field.  Floating point numbers  *)
(* are modelled by integers and complex numbers by pairs <<re, im>> of     *)
(* integers; every number the model computes is an integer small enough to *)
(* be exact in a float64, so the arithmetic of the code is reproduced      *)
(* exactly.  A call is recorded in `call`, its outcome (a returned value   *)
(* or a raised exception) in `ret`.                                        *)
(***************************************************************************)
EXTENDS Integers, Sequences, FiniteSets, TLC

VARIABLES
  self,   \* the ConvolutionMatrix object the caller holds, or None
  args,   \* the arguments the caller constructed it with, or None
  call,   \* the last call: its name, its arguments, the random draws it made
  ret     \* the outcome of the last call

vars == <<self, args, call, ret>>

---------------------------------------------------------------------------
(* Bounds of the model *)

\* matrices and shapes have between 1 and MaxDim rows and columns
MaxDim == 2
\* times (current_time, opts.max_time) range over 0..MaxTime
MaxTime == 2
\* residuals, reconstruction errors and opts.tol range over 0..MaxVal
MaxVal == 2

(* Program constants *)

\* the tolerance of check_adjoint is 1e-3 = 1/AdjointTolInv
AdjointTolInv == 1000
\* lsqr divides the caller's tolerance by LsqrTolDiv
LsqrTolDiv == 100

---------------------------------------------------------------------------
(* Python values *)

None == [kind |-> "None"]
PyInt(k) == [kind |-> "int", value |-> k]
PyBool(b) == [kind |-> "bool", value |-> b]
PyTuple(items) == [kind |-> "tuple", items |-> items]
PyList(shape, data) == [kind |-> "list", shape |-> shape, data |-> data]
NdArray(shape, data) == [kind |-> "ndarray", shape |-> shape, data |-> data]
\* the bound method `arr.all` of a boolean array, not called
BoundMethod(name, obj) == [kind |-> "method", name |-> name, obj |-> obj]

\* the outcome of a call
Return(v) == [kind |-> "return", value |-> v]
Raise(exc, msg) == [kind |-> "raise", exc |-> exc, msg |-> msg]

NoCall == [fn |-> "none"]

\* Python's truth value of an object (bool(v))
Truthy(v) ==
  CASE v.kind = "None" -> FALSE
    [] v.kind = "int" -> v.value # 0
    [] v.kind = "bool" -> v.value
    [] v.kind = "tuple" -> Len(v.items) > 0
    [] v.kind = "list" -> Len(v.data) > 0
    [] v.kind = "function" -> TRUE
    [] v.kind = "closure" -> TRUE
    [] v.kind = "method" -> TRUE
    [] OTHER -> TRUE

\* Python's callable(v)
callable(v) == v.kind \in {"function", "closure", "method"}

---------------------------------------------------------------------------
(* Complex arithmetic, as numpy computes it on exactly representable values *)

C(re, im) == <<re, im>>
CZero == C(0, 0)
CAdd(a, b) == C(a[1] + b[1], a[2] + b[2])
CSub(a, b) == C(a[1] - b[1], a[2] - b[2])
CMul(a, b) == C(a[1] * b[1] - a[2] * b[2], a[1] * b[2] + a[2] * b[1])
CConj(a) == C(a[1], 0 - a[2])
CScale(k, a) == C(k * a[1], k * a[2])
IAbs(k) == IF k < 0 THEN 0 - k ELSE k
\* |a|^2
CAbs2(a) == a[1] * a[1] + a[2] * a[2]
IsReal(a) == a[2] = 0

RECURSIVE CSum(_, _)
\* v[1] + ... + v[k]
CSum(v, k) == IF k = 0 THEN CZero ELSE CAdd(CSum(v, k - 1), v[k])

\* u @ v for two 1-D arrays of the same length
Dot(u, v) == CSum([i \in 1..Len(u) |-> CMul(u[i], v[i])], Len(u))

\* v.conjugate() of the data of a vector
VConj(v) == [i \in 1..Len(v) |-> CConj(v[i])]

\* A.conjugate() of a matrix
conjugate(A) ==
  NdArray(A.shape, [i \in 1..Len(A.data) |->
                      [j \in 1..Len(A.data[i]) |-> CConj(A.data[i][j])]])

\* A.T of a matrix
T(A) ==
  NdArray(PyTuple(<<A.shape.items[2], A.shape.items[1]>>),
          [j \in 1..A.shape.items[2] |->
             [i \in 1..A.shape.items[1] |-> A.data[i][j]]])

\* A @ v for a matrix A (m, n) and a vector v of shape (n,) or (n, 1)
MatMulNd(A, v) ==
  IF v.shape.items[1] # A.shape.items[2]
  THEN Raise("ValueError", "matmul: dimension mismatch")
  ELSE Return(NdArray(
         IF Len(v.shape.items) = 1
         THEN PyTuple(<<A.shape.items[1]>>)
         ELSE PyTuple(<<A.shape.items[1], 1>>),
         [i \in 1..A.shape.items[1] |-> Dot(A.data[i], v.data)]))


---------------------------------------------------------------------------
(* Callables: the closures the constructor defines over A, and the functions
   a caller passes as mv / rmv *)

\* def mv(v): return A@v
ClosureMv(A) == [kind |-> "closure", name |-> "mv", A |-> A]
\* def rmv(v): return A.conjugate().T@v
ClosureRmv(A) == [kind |-> "closure", name |-> "rmv", A |-> A]
\* a caller's function: v |-> scale * (v zero-padded or truncated to outlen)
UserFn(scale, outlen) == [kind |-> "function", scale |-> scale, outlen |-> outlen]

\* the shape of the result of applying a map with `outlen` outputs to v:
\* a 1-D vector stays 1-D, a column stays a column
OutShape(v, outlen) ==
  IF Len(v.shape.items) = 1 THEN PyTuple(<<outlen>>) ELSE PyTuple(<<outlen, 1>>)

CallUserFn(f, v) ==
  Return(NdArray(OutShape(v, f.outlen),
                 [i \in 1..f.outlen |->
                    IF i <= Len(v.data) THEN CScale(f.scale, v.data[i]) ELSE CZero]))

\* rmv(v) of the matrix-backed operator, conjugate first
CallRmv(A, v) == MatMulNd(T(conjugate(A)), v)

\* f(v) for a callable f
CallFn(f, v) ==
  IF ~callable(f) THEN Raise("TypeError", "object is not callable")
  ELSE IF f.kind = "closure"
       THEN IF f.name = "mv" THEN MatMulNd(f.A, v) ELSE CallRmv(f.A, v)
       ELSE CallUserFn(f, v)

---------------------------------------------------------------------------
(* scipy.sparse.linalg.LinearOperator, as the wrapper uses it *)

LinearOperator(shape, matvec, rmatvec) ==
  [kind |-> "LinearOperator", shape |-> shape,
   matvec |-> matvec, rmatvec |-> rmatvec]

\* the check and reshape scipy makes around a user callable with `inlen`
\* inputs and `outlen` outputs
Wrapped(f, v, inlen, outlen) ==
  IF v.kind # "ndarray" \/ v.shape.items \notin {<<inlen>>, <<inlen, 1>>}
  THEN Raise("ValueError", "dimension mismatch")
  ELSE LET y == CallFn(f, v)
       IN  IF y.kind = "raise" THEN y
           ELSE IF Len(y.value.data) # outlen
                THEN Raise("ValueError", "cannot reshape array")
                ELSE Return(NdArray(OutShape(v, outlen), y.value.data))

\* L.matvec(x)
matvec(L, x) == Wrapped(L.matvec, x, L.shape.items[2], L.shape.items[1])
\* L.rmatvec(y)
rmatvec(L, y) == Wrapped(L.rmatvec, y, L.shape.items[1], L.shape.items[2])
\* L.dot(x): a 1-D vector or a column goes to matvec
dot(L, x) ==
  IF Len(x.shape.items) = 1 \/ (Len(x.shape.items) = 2 /\ x.shape.items[2] = 1)
  THEN matvec(L, x)
  ELSE Raise("ValueError", "expected 1-d or 2-d array")

---------------------------------------------------------------------------
(* ConvolutionMatrix.__init__ *)

\* a faulty variant of init_args: the check that rmv is callable is missing
init_args_no_rmv_check(A, mv, rmv, shape) ==
  IF A # None
  THEN Return([A |-> A, shape |-> A.shape, mv |-> ClosureMv(A), rmv |-> ClosureRmv(A)])
  ELSE IF Truthy(mv) \/ Truthy(rmv)
       THEN IF ~Truthy(shape)
            THEN Raise("Exception", "If A is not given, its shape must be provided.")
            ELSE IF ~callable(mv)
                 THEN Raise("Exception", "Input mv was not a function.")
                 ELSE Return([A |-> A, shape |-> shape, mv |-> mv, rmv |-> rmv])
       ELSE Raise("Exception", "A was not an ndarray, and both multiplication functions were not provided.")

\* lines 29-47: the argument checks; returns the attributes set so far and the
\* pair (mv, rmv) in scope afterwards, or raises
init_args(A, mv, rmv, shape) ==
  IF A # None
  THEN Return([A |-> A, shape |-> A.shape, mv |-> ClosureMv(A), rmv |-> ClosureRmv(A)])
  ELSE IF Truthy(mv) \/ Truthy(rmv)
       THEN IF ~Truthy(shape)
            THEN Raise("Exception", "If A is not given, its shape must be provided.")
            ELSE IF ~callable(mv)
                 THEN Raise("Exception", "Input mv was not a function.")
                 ELSE IF ~callable(rmv)
                      THEN Raise("Exception", "Input rmv was not a function.")
                      ELSE Return([A |-> A, shape |-> shape, mv |-> mv, rmv |-> rmv])
       ELSE Raise("Exception", "A was not an ndarray, and both multiplication functions were not provided.")

\* lines 48-50: m, n and the wrapped LinearOperator
init_attrs(pre) ==
  [kind |-> "ConvolutionMatrix",
   A |-> pre.A, shape |-> pre.shape,
   m |-> pre.shape.items[1], n |-> pre.shape.items[2],
   matrix |-> LinearOperator(pre.shape, pre.mv, pre.rmv)]

---------------------------------------------------------------------------
(* ConvolutionMatrix.check_adjoint *)

\* k * |a| < |b|, exactly; real values are compared without squaring
ScaledAbsLess(k, a, b) ==
  IF IsReal(a) /\ IsReal(b)
  THEN k * IAbs(a[1]) < IAbs(b[1])
  ELSE k * k * CAbs2(a) < CAbs2(b)

\* error < 1e-3 for error = |d| / |ip1|: nan (0/0) and inf (d/0) compare False
ErrorBelowTol(d, ip1) ==
  IF ip1 = CZero THEN FALSE ELSE ScaledAbsLess(AdjointTolInv, d, ip1)

\* a faulty variant of check_adjoint: the tolerance is 1 instead of 1e-3
check_adjoint_loose(slf, y, x) ==
  LET Aty == rmatvec(slf.matrix, y)
  IN  IF Aty.kind = "raise" THEN [ret |-> Aty, drawn |-> <<y>>]
      ELSE LET Ax == matvec(slf.matrix, x)
           IN  IF Ax.kind = "raise" THEN [ret |-> Ax, drawn |-> <<y, x>>]
               ELSE LET inner_product1 == Dot(VConj(Ax.value.data), y.data)
                        inner_product2 == Dot(VConj(x.data), Aty.value.data)
                        d == CSub(inner_product1, inner_product2)
                    IN  [ret |-> IF inner_product1 # CZero
                                    /\ CAbs2(d) < CAbs2(inner_product1)
                                 THEN Return(None)
                                 ELSE Raise("AssertionError", "Invalid measurement operator"),
                         drawn |-> <<y, x>>]

\* y and x are the vectors np.random.randn draws; returns the outcome and the
\* draws made before it
check_adjoint(slf, y, x) ==
  LET Aty == rmatvec(slf.matrix, y)
  IN  IF Aty.kind = "raise" THEN [ret |-> Aty, drawn |-> <<y>>]
      ELSE LET Ax == matvec(slf.matrix, x)
           IN  IF Ax.kind = "raise" THEN [ret |-> Ax, drawn |-> <<y, x>>]
               ELSE LET inner_product1 == Dot(VConj(Ax.value.data), y.data)
                        inner_product2 == Dot(VConj(x.data), Aty.value.data)
                        d == CSub(inner_product1, inner_product2)
                    IN  [ret |-> IF ErrorBelowTol(d, inner_product1)
                                 THEN Return(None)
                                 ELSE Raise("AssertionError", "Invalid measurement operator"),
                         drawn |-> <<y, x>>]

---------------------------------------------------------------------------
(* ConvolutionMatrix.hmul, __mul__, __matmul__ *)

\* a faulty variant of hmul: it applies the forward operator
hmul_forward(slf, x) == matvec(slf.matrix, x)

\* returns At*x
hmul(slf, x) == rmatvec(slf.matrix, x)

__mul__(slf, x) == matvec(slf.matrix, x)

__matmul__(slf, x) == dot(slf.matrix, x)

---------------------------------------------------------------------------
(* ConvolutionMatrix.lsqr *)

\* a float given as the fraction num / den
Frac(num, den) == [kind |-> "float", num |-> num, den |-> den]
\* t / k
FracDiv(t, k) == Frac(t.num, t.den * k)

\* v.shape[i], with Python's 0-based index: an IndexError past the tuple's end
ShapeItem(v, i) ==
  IF i + 1 > Len(v.shape.items)
  THEN Raise("IndexError", "tuple index out of range")
  ELSE Return(v.shape.items[i + 1])

\* v.reshape(-1)
Flatten(v) == NdArray(PyTuple(<<Len(v.data)>>), v.data)

\* scipy.sparse.linalg.lsqr: the tuple (x, istop, itn, r1norm, ...) it returns
\* for these arguments; the library's results are left uninterpreted
scipy_lsqr(L, b, atol, btol, iter_lim, x0) ==
  LET of == [A |-> L, b |-> b, atol |-> atol, btol |-> btol,
             iter_lim |-> iter_lim, x0 |-> x0]
  IN  PyTuple(<<[kind |-> "lsqr.x", of |-> of], [kind |-> "lsqr.istop", of |-> of],
                [kind |-> "lsqr.itn", of |-> of], [kind |-> "lsqr.r1norm", of |-> of]>>)

lsqr(slf, b, tol, maxit, x0) ==
  LET b1 == ShapeItem(b, 1)
  IN  IF b1.kind = "raise" THEN b1
      ELSE LET bflat == IF b1.value > 0 THEN Flatten(b) ELSE b
               x01 == ShapeItem(x0, 1)
           IN  IF x01.kind = "raise" THEN x01
               ELSE LET x0flat == IF x01.value > 0 THEN Flatten(x0) ELSE x0
                        res == scipy_lsqr(slf.matrix, bflat, FracDiv(tol, LsqrTolDiv),
                                          FracDiv(tol, LsqrTolDiv), maxit, x0flat)
                    IN  Return(res.items[1])

---------------------------------------------------------------------------
(* ConvolutionMatrix.validate_input *)

\* the truth value an `if` or `assert` takes of v: numpy refuses to give one
\* for an array of more than one element
TruthValue(v) ==
  IF v.kind = "ndarray"
  THEN IF Len(v.data) = 0 THEN Return(FALSE)
       ELSE IF Len(v.data) = 1 THEN Return(v.data[1] # CZero)
            ELSE Raise("ValueError", "The truth value of an array with more than one element is ambiguous.")
  ELSE Return(Truthy(v))

\* the names bound at module level in matops.py
ModuleGlobals ==
  {"np", "LinearOperator", "eigs", "lsqr", "mvnrnd", "ConvolutionMatrix",
   "stop_now", "display_verbose_output", "plot_error_convergence",
   "plot_recovered_vs_original", "build_test_problem"}

\* whether a name read in a function with these local names is bound
Bound(name, locals) == name \in locals \cup ModuleGlobals

\* np.abs(z) == z for one entry: np.abs is the modulus, a real number
AbsEq(z) == IF IsReal(z) THEN C(IAbs(z[1]), 0) = z ELSE FALSE

\* (np.abs(b0) == b0): the boolean array
AbsEqArray(b0) == [kind |-> "boolarray", data |-> [i \in 1..Len(b0.data) |-> AbsEq(b0.data[i])]]

\* np.shape(v) as a tuple
npshape(v) == v.shape

validate_input(slf, b0, opts) ==
  \* the assert tests the bound method `.all`, which is not called
  IF ~Truthy(BoundMethod("all", AbsEqArray(b0)))
  THEN Raise("AssertionError", "b must be real-valued and non-negative")
  ELSE LET t == TruthValue(opts.customx0)
       IN  IF t.kind = "raise" THEN t
           ELSE IF t.value
                THEN \* the assert reads the name n, not self.n
                     IF ~Bound("n", {"self", "b0", "opts"})
                     THEN Raise("NameError", "name 'n' is not defined")
                     ELSE IF npshape(opts.customx0) # PyTuple(<<slf.n, 1>>)
                          THEN Raise("AssertionError", "customx0 must be a column vector of length n")
                          ELSE Return(None)
                ELSE Return(None)

---------------------------------------------------------------------------
(* stop_now *)

\* a faulty variant of stop_now: the time test is > instead of >=
stop_now_strict(opts, current_time, current_resid, current_recon_error) ==
  IF current_time > opts.max_time
  THEN Return(PyBool(TRUE))
  ELSE IF Len(opts.xt.data) > 0
       THEN IF ~Truthy(current_recon_error)
            THEN Raise("AssertionError", "If xt is provided, current_recon_error must be provided.")
            ELSE Return(PyBool(current_recon_error.value < opts.tol))
       ELSE IF ~Truthy(current_resid)
            THEN Raise("AssertionError", "If xt is not provided, current_resid must be provided.")
            ELSE Return(PyBool(current_resid.value < opts.tol))

\* a faulty variant of stop_now: the two branches test each other's value
stop_now_swapped(opts, current_time, current_resid, current_recon_error) ==
  IF current_time >= opts.max_time
  THEN Return(PyBool(TRUE))
  ELSE IF Len(opts.xt.data) > 0
       THEN IF ~Truthy(current_resid)
            THEN Raise("AssertionError", "If xt is not provided, current_resid must be provided.")
            ELSE Return(PyBool(current_resid.value < opts.tol))
       ELSE IF ~Truthy(current_recon_error)
            THEN Raise("AssertionError", "If xt is provided, current_recon_error must be provided.")
            ELSE Return(PyBool(current_recon_error.value < opts.tol))

stop_now(opts, current_time, current_resid, current_recon_error) ==
  IF current_time >= opts.max_time
  THEN Return(PyBool(TRUE))
  ELSE IF Len(opts.xt.data) > 0
       THEN IF ~Truthy(current_recon_error)
            THEN Raise("AssertionError", "If xt is provided, current_recon_error must be provided.")
            ELSE Return(PyBool(current_recon_error.value < opts.tol))
       ELSE IF ~Truthy(current_resid)
            THEN Raise("AssertionError", "If xt is not provided, current_resid must be provided.")
            ELSE Return(PyBool(current_resid.value < opts.tol))

---------------------------------------------------------------------------
(* The inputs *)

Dims == 1..MaxDim

\* the entries of the matrices: 0, 1, -1 and i
Scalars == {C(0, 0), C(1, 0), C(0 - 1, 0), C(0, 1)}

\* where a matrix of the family is non-zero: the diagonal, everywhere, the
\* upper triangle, or one entry
Patterns(m, n) ==
  {[p |-> "eye", i |-> 0, j |-> 0], [p |-> "ones", i |-> 0, j |-> 0],
   [p |-> "upper", i |-> 0, j |-> 0]}
  \cup {[p |-> "unit", i |-> i, j |-> j] : i \in 1..m, j \in 1..n}

InPattern(pat, i, j) ==
  CASE pat.p = "eye" -> i = j
    [] pat.p = "ones" -> TRUE
    [] pat.p = "upper" -> i <= j
    [] OTHER -> i = pat.i /\ j = pat.j

\* the m x n ndarray that holds c on the pattern and 0 elsewhere
PatternMatrix(m, n, pat, c) ==
  NdArray(PyTuple(<<m, n>>),
          [i \in 1..m |-> [j \in 1..n |-> IF InPattern(pat, i, j) THEN c ELSE CZero]])

Matrices ==
  UNION {{PatternMatrix(m, n, pat, c) : pat \in Patterns(m, n), c \in Scalars} :
         m \in Dims, n \in Dims}

\* the scale factors of the callers' functions: 1001 against 1000 is within
\* the tolerance of check_adjoint, 1000 against 1001 is not
Scales == {1, 1000, 1001}
UserFns == {UserFn(k, len) : k \in Scales, len \in Dims}
\* what a caller may pass as mv or rmv: nothing, a function, or a number
FnArgs == {None, PyInt(5)} \cup UserFns
ShapeArgs == {None} \cup {PyTuple(<<m, n>>) : m \in Dims, n \in Dims}

\* the 1-D real vectors of length k that np.random.randn(k) is taken to draw
randn(k) ==
  {NdArray(PyTuple(<<k>>), [i \in 1..k |-> C(v[i], 0)]) : v \in [1..k -> {0 - 1, 1}]}

CtorArgs(A, mv, rmv, shape) == [A |-> A, mv |-> mv, rmv |-> rmv, shape |-> shape]

\* what a caller passes besides a matrix
ExtraArgs ==
  {CtorArgs(None, None, None, None),
   CtorArgs(None, UserFn(1, 1), None, None),
   CtorArgs(None, PyInt(5), UserFn(1000, 1), PyTuple(<<1, 1>>))}

\* every way the constructor is called
AllCtorArgs ==
  {CtorArgs(None, mv, rmv, shape) : mv \in FnArgs, rmv \in FnArgs, shape \in ShapeArgs}
  \cup {CtorArgs(A, e.mv, e.rmv, e.shape) : A \in Matrices, e \in ExtraArgs}

\* the ways to call it that the operations are exercised on: a matrix alone,
\* or a pair of functions with their shape
PlainCtorArgs ==
  {CtorArgs(A, None, None, None) : A \in Matrices}
  \cup {CtorArgs(None, UserFn(k, m), UserFn(l, n), PyTuple(<<m, n>>)) :
          k \in Scales, l \in Scales, m \in Dims, n \in Dims}

---------------------------------------------------------------------------
(* The state machine *)

Init ==
  /\ self = None
  /\ args = None
  /\ call = NoCall
  /\ ret = Return(None)

\* A_op = ConvolutionMatrix(A, mv, rmv, shape), the arguments taken from S.
\* The object exists for the caller only if __init__ returns.
ConstructFrom(S) ==
  /\ call = NoCall
  /\ \E a \in S :
       LET pre == init_args(a.A, a.mv, a.rmv, a.shape)
       IN  IF pre.kind = "raise"
           THEN /\ self' = None
                /\ args' = a
                /\ call' = [fn |-> "__init__", randn |-> <<>>]
                /\ ret' = pre
           ELSE LET obj == init_attrs(pre.value)
                IN  \E y \in randn(obj.m), x \in randn(obj.n) :
                      LET chk == check_adjoint(obj, y, x)
                      IN  /\ self' = IF chk.ret.kind = "return" THEN obj ELSE None
                          /\ args' = a
                          /\ call' = [fn |-> "__init__", randn |-> chk.drawn]
                          /\ ret' = chk.ret

Construct == ConstructFrom(AllCtorArgs)

NextInit == Construct

\* the constructor alone, on every way to call it
SpecInit == Init /\ [][NextInit]_vars

---------------------------------------------------------------------------
(* The operations on a constructed operator *)

\* the vectors of length k with entries from E, as 1-D arrays and as columns
Vectors(k, E) ==
  {NdArray(sh, v) : sh \in {PyTuple(<<k>>), PyTuple(<<k, 1>>)}, v \in [1..k -> E]}

\* the operands of the multiplications: entries 1 and i
Operands(k) == Vectors(k, {C(1, 0), C(0, 1)})

ConstructPlain == ConstructFrom(PlainCtorArgs)

\* A_op * x
Mul ==
  /\ self # None
  /\ \E x \in Operands(self.n) :
       /\ call' = [fn |-> "__mul__", x |-> x]
       /\ ret' = __mul__(self, x)
  /\ UNCHANGED <<self, args>>

\* A_op @ x
MatMul ==
  /\ self # None
  /\ \E x \in Operands(self.n) :
       /\ call' = [fn |-> "__matmul__", x |-> x]
       /\ ret' = __matmul__(self, x)
  /\ UNCHANGED <<self, args>>

\* A_op.hmul(y)
HMul ==
  /\ self # None
  /\ \E y \in Operands(self.m) :
       /\ call' = [fn |-> "hmul", x |-> y]
       /\ ret' = hmul(self, y)
  /\ UNCHANGED <<self, args>>

Next == ConstructPlain \/ Mul \/ MatMul \/ HMul

\* construction, then any sequence of multiplications
Spec == Init /\ [][Next]_vars

---------------------------------------------------------------------------

\* the tolerances a caller passes to lsqr: 1 and 5e-4
LsqrTols == {Frac(1, 1), Frac(5, 10000)}
LsqrIters == {1, 60}
\* the initial guesses: the zero vector, 1-D or a column
Guesses(k) == Vectors(k, {CZero})

\* A_op.lsqr(b, tol, maxit, x0)
Lsqr ==
  /\ self # None
  /\ \E b \in Operands(self.m), x0 \in Guesses(self.n),
        tol \in LsqrTols, maxit \in LsqrIters :
       /\ call' = [fn |-> "lsqr", b |-> b, tol |-> tol, maxit |-> maxit, x0 |-> x0]
       /\ ret' = lsqr(self, b, tol, maxit, x0)
  /\ UNCHANGED <<self, args>>

NextLsqr == ConstructPlain \/ Lsqr

\* construction, then any sequence of least-squares solves
SpecLsqr == Init /\ [][NextLsqr]_vars

---------------------------------------------------------------------------

\* the measurements handed to validate_input: entries 1, -1 and i
Measurements(k) == Vectors(k, {C(1, 0), C(0 - 1, 0), C(0, 1)})

\* opts.customx0: absent, or a list or an array of k entries c, flat or a column
CustomX0s ==
  {None, PyList(PyTuple(<<0>>), <<>>)}
  \cup {PyList(sh, [i \in 1..sh.items[1] |-> C(1, 0)]) :
          sh \in {PyTuple(<<k>>) : k \in Dims} \cup {PyTuple(<<k, 1>>) : k \in Dims}}
  \cup {NdArray(PyTuple(<<k, 1>>), [i \in 1..k |-> c]) :
          k \in Dims, c \in {CZero, C(1, 0)}}

\* A_op.validate_input(b0, opts)
ValidateInput ==
  /\ self # None
  /\ \E b0 \in Measurements(self.m), x0 \in CustomX0s :
       /\ call' = [fn |-> "validate_input", b0 |-> b0, opts |-> [customx0 |-> x0]]
       /\ ret' = validate_input(self, b0, [customx0 |-> x0])
  /\ UNCHANGED <<self, args>>

NextValidate == ConstructPlain \/ ValidateInput

\* construction, then any sequence of input validations
SpecValidate == Init /\ [][NextValidate]_vars

---------------------------------------------------------------------------

Times == 0..MaxTime
\* a residual or a reconstruction error: undefined, or a number >= 0
Errors == {None} \cup {PyInt(k) : k \in 0..MaxVal}
\* opts.xt: empty when no true signal is supplied
TrueSignals == {PyList(PyTuple(<<0>>), <<>>), PyList(PyTuple(<<1, 1>>), <<C(1, 0)>>)}
StopOpts == [max_time : Times, tol : 0..MaxVal, xt : TrueSignals]

\* stop_now(opts, current_time, current_resid, current_recon_error)
StopNow ==
  /\ call = NoCall
  /\ \E opts \in StopOpts, current_time \in Times,
        current_resid \in Errors, current_recon_error \in Errors :
       /\ call' = [fn |-> "stop_now", opts |-> opts, current_time |-> current_time,
                   current_resid |-> current_resid,
                   current_recon_error |-> current_recon_error]
       /\ ret' = stop_now(opts, current_time, current_resid, current_recon_error)
  /\ UNCHANGED <<self, args>>

NextStop == StopNow

\* one evaluation of the stopping condition, on every input
SpecStop == Init /\ [][NextStop]_vars

---------------------------------------------------------------------------
(* The claims about the constructor, under SpecInit *)

CallIsInit == call.fn = "__init__"

\* C1: construction fails with an Exception raised by the argument checks, and
\* yields no object, when no matrix is given and (a) neither function is given,
\* (b) only one of mv / rmv is a callable, or (c) both are callables but the
\* shape is omitted; when A is given, or mv, rmv and shape are all given,
\* construction reaches check_adjoint (which starts by drawing y).
C1_ConstructionErrors ==
  CallIsInit =>
    LET neither == args.mv = None /\ args.rmv = None
        onlyOne == callable(args.mv) # callable(args.rmv)
        noShape == callable(args.mv) /\ callable(args.rmv) /\ args.shape = None
        complete == callable(args.mv) /\ callable(args.rmv) /\ args.shape # None
    IN  /\ (args.A = None /\ (neither \/ onlyOne \/ noShape))
             => /\ ret.kind = "raise"
                /\ ret.exc = "Exception"
                /\ self = None
                /\ call.randn = <<>>
        /\ (args.A # None \/ complete) => Len(call.randn) >= 1

\* mv is a function, rmv is missing and the shape is given: the constructor raised
C1_Witness ==
  /\ CallIsInit
  /\ args.A = None /\ callable(args.mv) /\ args.rmv = None /\ args.shape # None
  /\ ret.kind = "raise" /\ ret.exc = "Exception"
  /\ self = None

\* the object __init__ has built from the caller's arguments when it reaches
\* check_adjoint
Candidate == init_attrs(init_args(args.A, args.mv, args.rmv, args.shape).value)

\* <A x, y> and <x, At y> of the vectors drawn, y first
DrawnProduct1 ==
  Dot(VConj(matvec(Candidate.matrix, call.randn[2]).value.data), call.randn[1].data)
DrawnProduct2 ==
  Dot(VConj(call.randn[2].data), rmatvec(Candidate.matrix, call.randn[1]).value.data)

\* both products were computed
ProductsDefined ==
  /\ CallIsInit
  /\ Len(call.randn) = 2
  /\ matvec(Candidate.matrix, call.randn[2]).kind = "return"
  /\ rmatvec(Candidate.matrix, call.randn[1]).kind = "return"

\* |<A x, y> - <x, At y>| / |<A x, y>| > 1e-3
RelDiffExceeds ==
  /\ DrawnProduct1 # CZero
  /\ ScaledAbsLess(1, DrawnProduct1,
                   CScale(AdjointTolInv, CSub(DrawnProduct1, DrawnProduct2)))

\* |<A x, y> - <x, At y>| / |<A x, y>| < 1e-3
RelDiffBelow ==
  /\ DrawnProduct1 # CZero
  /\ ScaledAbsLess(AdjointTolInv, CSub(DrawnProduct1, DrawnProduct2), DrawnProduct1)

\* C2: on every construction path the adjoint check decides: a construction
\* whose drawn vectors give a relative difference above 1e-3 raises and yields
\* no object, and every object that exists passed the check with a relative
\* difference below 1e-3.
C2_AdjointCheckedAtCreation ==
  CallIsInit =>
    /\ (ProductsDefined /\ RelDiffExceeds) => (ret.kind = "raise" /\ self = None)
    /\ self # None => (ret = Return(None) /\ ProductsDefined /\ RelDiffBelow)

\* a function pair that is not adjoint (1000 x against 1001 y) was refused
C2_Witness ==
  /\ CallIsInit
  /\ args.A = None
  /\ ProductsDefined /\ RelDiffExceeds
  /\ ret.kind = "raise" /\ ret.exc = "AssertionError"
  /\ self = None

\* A is square, real, and equal to its transpose
RealSymmetric(A) ==
  /\ A.shape.items[1] = A.shape.items[2]
  /\ \A i \in 1..A.shape.items[1], j \in 1..A.shape.items[2] :
       IsReal(A.data[i][j]) /\ A.data[i][j] = A.data[j][i]

\* C3: for an operator constructed from a real symmetric matrix, whatever
\* real vectors are drawn, check_adjoint does not fail.
C3_SymmetricAlwaysPasses ==
  (CallIsInit /\ args.A # None /\ RealSymmetric(args.A)) => ret.kind = "return"

---------------------------------------------------------------------------
(* The claims about stop_now, under SpecStop *)

CallIsStop == call.fn = "stop_now"
TrueSignalGiven == Len(call.opts.xt.data) > 0

\* C4: whenever current_time >= opts.max_time, stop_now returns True without
\* raising, whatever the residual, the error and the true signal are.
C4_StopsAtMaxTime ==
  (CallIsStop /\ call.current_time >= call.opts.max_time)
    => ret = Return(PyBool(TRUE))

\* max_time = 0, a true signal, and both values undefined: True was returned
C4_Witness ==
  /\ CallIsStop
  /\ call.opts.max_time = 0
  /\ TrueSignalGiven
  /\ call.current_resid = None /\ call.current_recon_error = None
  /\ ret = Return(PyBool(TRUE))

\* C5: when current_time < opts.max_time, stop_now returns exactly
\* (current_recon_error < tol) if a true signal is supplied and exactly
\* (current_resid < tol) otherwise, for every defined value >= 0.
C5_ReturnsComparison ==
  (CallIsStop /\ call.current_time < call.opts.max_time) =>
    /\ (TrueSignalGiven /\ call.current_recon_error # None)
         => ret = Return(PyBool(call.current_recon_error.value < call.opts.tol))
    /\ (~TrueSignalGiven /\ call.current_resid # None)
         => ret = Return(PyBool(call.current_resid.value < call.opts.tol))

\* C6: when current_time < opts.max_time, stop_now raises if a true signal is
\* supplied and current_recon_error is None, and raises if no true signal is
\* supplied and current_resid is None.
C6_UndefinedValueRaises ==
  (CallIsStop /\ call.current_time < call.opts.max_time) =>
    /\ (TrueSignalGiven /\ call.current_recon_error = None)
         => (ret.kind = "raise" /\ ret.exc = "AssertionError")
    /\ (~TrueSignalGiven /\ call.current_resid = None)
         => (ret.kind = "raise" /\ ret.exc = "AssertionError")

\* a true signal, the error undefined though the residual is 1: it raised
C6_Witness ==
  /\ CallIsStop
  /\ call.current_time < call.opts.max_time
  /\ TrueSignalGiven
  /\ call.current_recon_error = None /\ call.current_resid = PyInt(1)
  /\ ret.kind = "raise"

---------------------------------------------------------------------------
(* The claims about validate_input, under SpecValidate *)

CallIsValidate == call.fn = "validate_input"

\* C7: when opts.customx0 is supplied, validate_input succeeds if its shape is
\* (n, 1) and raises otherwise; when none is supplied the check is skipped.
C7_CustomX0DimensionChecked ==
  CallIsValidate =>
    LET x0 == call.opts.customx0
        supplied == x0 # None /\ Len(x0.data) > 0
    IN  /\ (supplied /\ x0.shape = PyTuple(<<self.n, 1>>)) => ret.kind = "return"
        /\ (supplied /\ x0.shape # PyTuple(<<self.n, 1>>)) => ret.kind = "raise"

\* C10: measurements with an entry that is not real and non-negative are
\* refused with the assertion 'b must be real-valued and non-negative'.
C10_NegativeMeasurementsRefused ==
  (CallIsValidate
     /\ \E i \in 1..Len(call.b0.data) :
          ~(IsReal(call.b0.data[i]) /\ call.b0.data[i][1] >= 0))
    => ret = Raise("AssertionError", "b must be real-valued and non-negative")

---------------------------------------------------------------------------
(* The claim about lsqr, under SpecLsqr *)

\* C9: for b a vector of length m and x0 a vector of length n, lsqr runs the
\* solver on the wrapped operator with atol = btol = tol / 100, iter_lim =
\* maxit and x0, and returns the solution vector only.
C9_LsqrScalesTolerance ==
  call.fn = "lsqr" =>
    /\ ret.kind = "return"
    /\ ret.value.kind = "lsqr.x"
    /\ ret.value.of = [A |-> self.matrix,
                       b |-> NdArray(PyTuple(<<self.m>>), call.b.data),
                       atol |-> Frac(call.tol.num, call.tol.den * LsqrTolDiv),
                       btol |-> Frac(call.tol.num, call.tol.den * LsqrTolDiv),
                       iter_lim |-> call.maxit,
                       x0 |-> NdArray(PyTuple(<<self.n>>), call.x0.data)]

---------------------------------------------------------------------------
(* The claim about the multiplications, under Spec *)

\* (A x)[i] = sum over j of A[i][j] * x[j]
ForwardEntries(A, x) ==
  [i \in 1..A.shape.items[1] |->
     CSum([j \in 1..A.shape.items[2] |-> CMul(A.data[i][j], x[j])], A.shape.items[2])]

\* (conj(A)^T y)[j] = sum over i of conj(A[i][j]) * y[i]
AdjointEntries(A, y) ==
  [j \in 1..A.shape.items[2] |->
     CSum([i \in 1..A.shape.items[1] |-> CMul(CConj(A.data[i][j]), y[i])], A.shape.items[1])]

\* C8: on a matrix-backed operator A_op * x and A_op @ x return A x (length m)
\* and hmul(y) returns conj(A)^T y (length n); on a function-backed operator
\* they return mv(x) and rmv(y); and the operator stays as it was constructed.
C8_MultiplicationResults ==
  self # None =>
    /\ self = Candidate
    /\ self.shape = (IF args.A # None THEN args.A.shape ELSE args.shape)
    /\ self.m = self.shape.items[1] /\ self.n = self.shape.items[2]
    /\ self.A = args.A
    /\ call.fn \in {"__mul__", "__matmul__"} =>
         /\ ret.kind = "return"
         /\ Len(ret.value.data) = self.m
         /\ ret.value.shape = OutShape(call.x, self.m)
         /\ IF args.A # None
            THEN ret.value.data = ForwardEntries(args.A, call.x.data)
            ELSE ret.value.data = CallUserFn(args.mv, call.x).value.data
    /\ call.fn = "hmul" =>
         /\ ret.kind = "return"
         /\ Len(ret.value.data) = self.n
         /\ ret.value.shape = OutShape(call.x, self.n)
         /\ IF args.A # None
            THEN ret.value.data = AdjointEntries(args.A, call.x.data)
            ELSE ret.value.data = CallUserFn(args.rmv, call.x).value.data

\* hmul was applied on an operator built from a 1 x 2 matrix with entries i
C8_Witness ==
  /\ self # None
  /\ args.A # None
  /\ args.A.shape = PyTuple(<<1, 2>>)
  /\ args.A.data[1][2] = C(0, 1)
  /\ call.fn = "hmul"
  /\ ret.kind = "return"
  /\ ret.value.data[2] # CZero

===========================================================================
